---- MODULE Spec2Model ----
(***************************************************************************)
(* A model of the SSTable write path of linxGnu/sstable:                   *)
(* src/src/table_builder.rs (Footer and TableBuilder).                     *)
(*                                                                         *)
(* Collaborators whose code lives in other modules of the crate (the       *)
(* comparator, BlockHandle, BlockBuilder, FilterBlockBuilder) are modelled *)
(* from their documented contracts.  Block contents, compressed data and   *)
(* checksums are structured values with a length; the footer is modelled   *)
(* byte by byte.                                                           *)
(***************************************************************************)
EXTENDS Integers, Sequences, FiniteSets, TLC

VARIABLES
    tbs,      \* the table builders under construction: id -> builder record
    foot,     \* Footer under test (input of Footer::encode)
    buf,      \* byte buffer handed to Footer::encode / Footer::decode
    dec       \* outcome of the last Footer::decode / Footer::encode call

vars == <<tbs, foot, buf, dec>>

(***************************************************************************)
(* Wire-format constants (table_builder.rs:17-22).                         *)
(***************************************************************************)
FOOTER_LENGTH == 40
FULL_FOOTER_LENGTH == FOOTER_LENGTH + 8
MAGIC_FOOTER_ENCODED == <<87, 251, 128, 139, 36, 117, 71, 219>>
TABLE_BLOCK_COMPRESS_LEN == 1
TABLE_BLOCK_CKSUM_LEN == 4

(***************************************************************************)
(* Bounds of the model.                                                    *)
(***************************************************************************)
MaxAdds == 3          \* add calls per builder
MaxFuel == 18         \* sink calls one operation may be allowed before a failure
ShortLen == 10        \* bytes a short-writing sink accepts of the footer
JunkLen == 1          \* extra bytes a footer buffer may have beyond 48

KeyBytes == {1, 255}
Values == {<<7>>}
BlockSizes == {0, 16, 64}
HandleVals == {0, 127, 128, 268435456}
FillBytes == {0, 7}

Keys == {<<>>} \cup {<<a>> : a \in KeyBytes} \cup {<<a, b>> : a \in KeyBytes, b \in KeyBytes}

RECURSIVE SumLen(_)
SumLen(s) == IF s = <<>> THEN 0 ELSE Head(s).n + SumLen(Tail(s))

(***************************************************************************)
(* Comparator (opt.cmp): the default bytewise order and its separator      *)
(* synthesis.                                                              *)
(***************************************************************************)
RECURSIVE Cmp(_, _)
Cmp(a, b) ==
    IF a = <<>> /\ b = <<>> THEN "Equal"
    ELSE IF a = <<>> THEN "Less"
    ELSE IF b = <<>> THEN "Greater"
    ELSE IF Head(a) < Head(b) THEN "Less"
    ELSE IF Head(a) > Head(b) THEN "Greater"
    ELSE Cmp(Tail(a), Tail(b))

KeyLess(a, b) == Cmp(a, b) = "Less"
KeyLeq(a, b) == Cmp(a, b) # "Greater"

\* a[1..i-1] followed by a[i]+1: the smallest string of length i above a
Bump(a, i) == Append(SubSeq(a, 1, i - 1), a[i] + 1)

\* shortest byte string in [a, b); a itself when the range is empty
find_shortest_sep(a, b) ==
    LET cands == {a} \cup {Bump(a, i) : i \in {j \in 1..Len(a) : a[j] < 255}}
        ok    == {s \in cands : KeyLeq(a, s) /\ KeyLess(s, b)}
    IN  IF ok = {} THEN a
        ELSE IF \E s \in ok : Len(s) < Len(a)
             THEN CHOOSE s \in ok : \A t \in ok : Len(s) <= Len(t)
             ELSE a

\* shortest byte string strictly greater than key
find_short_succ(key) ==
    LET idx == {j \in 1..Len(key) : key[j] < 255}
    IN  IF idx = {} THEN Append(key, 0)
        ELSE Bump(key, CHOOSE i \in idx : \A j \in idx : i <= j)

(***************************************************************************)
(* BlockHandle: (offset, size), encoded as two varints.                    *)
(***************************************************************************)
RECURSIVE Varint(_)
Varint(n) ==
    IF n < 128 THEN <<n>>
    ELSE <<128 + (n % 128)>> \o Varint(n \div 128)

\* decode_var from position i (1-based) of bytes: value and bytes consumed;
\* input that ends inside a varint is truncated
RECURSIVE DecodeVarFrom(_, _, _, _, _)
DecodeVarFrom(bytes, i, mult, acc, used) ==
    IF i > Len(bytes) THEN [val |-> acc, len |-> used]
    ELSE IF bytes[i] < 128
         THEN [val |-> acc + bytes[i] * mult, len |-> used + 1]
         ELSE DecodeVarFrom(bytes, i + 1, mult * 128,
                            acc + (bytes[i] - 128) * mult, used + 1)

DecodeVar(bytes) == DecodeVarFrom(bytes, 1, 1, 0, 0)

BlockHandle(offset, size) == [offset |-> offset, size |-> size]

EncodeHandle(h) == Varint(h.offset) \o Varint(h.size)

DecodeHandle(from) ==
    LET off == DecodeVar(from)
        sz  == DecodeVar(SubSeq(from, off.len + 1, Len(from)))
    IN  [handle |-> BlockHandle(off.val, sz.val), len |-> off.len + sz.len]

(***************************************************************************)
(* Footer (table_builder.rs:28-70).                                        *)
(***************************************************************************)
Footer(metaix, index) == [meta_index |-> metaix, index |-> index]

NoFooter == Footer(BlockHandle(0, 0), BlockHandle(0, 0))

\* as FooterDecode, but reads the index handle from the start of the buffer
FooterDecode_IndexAtStart(from) ==
    IF Len(from) < FULL_FOOTER_LENGTH THEN [panic |-> TRUE, footer |-> NoFooter]
    ELSE IF SubSeq(from, FOOTER_LENGTH + 1, Len(from)) # MAGIC_FOOTER_ENCODED
         THEN [panic |-> TRUE, footer |-> NoFooter]
    ELSE [panic |-> FALSE,
          footer |-> Footer(DecodeHandle(from).handle, DecodeHandle(from).handle)]

\* Footer::decode: the two assertions, then the two handles
FooterDecode(from) ==
    IF Len(from) < FULL_FOOTER_LENGTH THEN [panic |-> TRUE, footer |-> NoFooter]
    ELSE IF SubSeq(from, FOOTER_LENGTH + 1, Len(from)) # MAGIC_FOOTER_ENCODED
         THEN [panic |-> TRUE, footer |-> NoFooter]
    ELSE LET meta == DecodeHandle(from)
             ix   == DecodeHandle(SubSeq(from, meta.len + 1, Len(from)))
         IN  [panic |-> FALSE, footer |-> Footer(meta.handle, ix.handle)]

\* as FooterEncode, but the bytes between the handles and the magic are left alone
FooterEncode_NoPad(f, to) ==
    IF Len(to) < FOOTER_LENGTH + 8 THEN [panic |-> TRUE, to |-> to]
    ELSE LET e1 == EncodeHandle(f.meta_index)
             e2 == EncodeHandle(f.index)
             s1 == Len(e1)
             s2 == Len(e2)
         IN  [panic |-> FALSE,
              to |-> [i \in 1..Len(to) |->
                        IF i <= s1 THEN e1[i]
                        ELSE IF i <= s1 + s2 THEN e2[i - s1]
                        ELSE IF i <= FOOTER_LENGTH THEN to[i]
                        ELSE IF i <= FULL_FOOTER_LENGTH
                             THEN MAGIC_FOOTER_ENCODED[i - FOOTER_LENGTH]
                        ELSE to[i]]]

\* Footer::encode: the buffer afterwards (unchanged when the assertion fails)
FooterEncode(f, to) ==
    IF Len(to) < FOOTER_LENGTH + 8 THEN [panic |-> TRUE, to |-> to]
    ELSE LET e1 == EncodeHandle(f.meta_index)
             e2 == EncodeHandle(f.index)
             s1 == Len(e1)
             s2 == Len(e2)
         IN  [panic |-> FALSE,
              to |-> [i \in 1..Len(to) |->
                        IF i <= s1 THEN e1[i]
                        ELSE IF i <= s1 + s2 THEN e2[i - s1]
                        ELSE IF i <= FOOTER_LENGTH THEN 0
                        ELSE IF i <= FULL_FOOTER_LENGTH
                             THEN MAGIC_FOOTER_ENCODED[i - FOOTER_LENGTH]
                        ELSE to[i]]]

EncodedFooter(f) ==
    FooterEncode(f, [i \in 1..FULL_FOOTER_LENGTH |-> 0]).to

(***************************************************************************)
(* BlockBuilder: the entries added so far.  Block format: per entry three  *)
(* one-byte varints, the key and the value; one restart point and the      *)
(* restart count (4 bytes each).                                           *)
(***************************************************************************)
NewBlock == <<>>

Entry(key, val) == [key |-> key, val |-> val]

RECURSIVE EntriesLen(_)
EntriesLen(es) ==
    IF es = <<>> THEN 0
    ELSE 3 + Len(Head(es).key) + Len(Head(es).val) + EntriesLen(Tail(es))

size_estimate(block) == EntriesLen(block) + 4 + 4

Entries(block) == Len(block)

last_key(block) == IF block = <<>> THEN <<>> ELSE block[Len(block)].key

\* BlockBuilder::add asserts that keys arrive in strictly increasing order
BlockCanAdd(block, key) == block = <<>> \/ KeyLess(last_key(block), key)

BlockAdd(block, key, val) == Append(block, Entry(key, val))

BlockFinish(block) == [kind |-> "block", entries |-> block]

(***************************************************************************)
(* FilterBlockBuilder: the calls it has received.                          *)
(***************************************************************************)
NewFilterBlock(policy) == [policy |-> policy, calls |-> <<>>]

FilterAddKey(fb, key) ==
    [fb EXCEPT !.calls = Append(@, [call |-> "add_key", arg |-> key])]

FilterStartBlock(fb, offset) ==
    [fb EXCEPT !.calls = Append(@, [call |-> "start_block", arg |-> offset])]

FilterName(fb) == fb.policy

FilterFinish(fb) == [kind |-> "filter", policy |-> fb.policy, calls |-> fb.calls]

(***************************************************************************)
(* Contents handed to write_block, their length, compression, checksum.    *)
(***************************************************************************)
SnappyLen(n) == (n \div 2) + 2

RECURSIVE ContentLen(_)
ContentLen(data) ==
    IF data.kind = "block" THEN size_estimate(data.entries)
    ELSE IF data.kind = "filter"
         THEN 5 + (IF data.policy = "nofilter" THEN 0
                   ELSE Cardinality({i \in 1..Len(data.calls) :
                                       data.calls[i].call = "add_key"}))
    ELSE SnappyLen(ContentLen(data.of))

compress_vec(data) == [kind |-> "snappy", of |-> data]

CompressionNone == "CompressionNone"
CompressionSnappy == "CompressionSnappy"

\* ctype as u8
Tag(ctype) == IF ctype = CompressionNone THEN 0 ELSE 1

mask_crc(crc) == [masked |-> crc]

\* CASTAGNOLI digest over the updates, in order
Digest(updates) == [crc32c |-> updates]

(***************************************************************************)
(* The output sink (Dst: Write), as the calls it has received.  A call of  *)
(* the current operation fails when the countdown `fuel` stands at 1       *)
(* (0: the sink does not fail); a failing write_all has taken nothing or   *)
(* all but one byte (`partial`); write takes at most `accept` bytes.       *)
(***************************************************************************)
Some(x) == [some |-> TRUE, v |-> x]
NoneOpt == [some |-> FALSE, v |-> <<>>]

Min(a, b) == IF a < b THEN a ELSE b

SinkCall(call, blk, part, data, n, ok) ==
    [call |-> call, blk |-> blk, part |-> part, data |-> data, n |-> n, ok |-> ok]

Tick(t) == [t EXCEPT !.fuel = IF @ = 0 THEN 0 ELSE @ - 1]

Fail(t) == [t EXCEPT !.exc = "err", !.fuel = 0]

Panic(t) == [t EXCEPT !.exc = "panic"]

\* as WriteAll, but the result of the write is dropped
WriteAll_IgnoresError(t, blk, part, data, len) ==
    IF t.exc # "none" \/ len = 0 THEN t
    ELSE IF t.fuel = 1
         THEN [t EXCEPT !.dst = Append(@, SinkCall("write_all", blk, part, data,
                                      IF t.partial THEN len - 1 ELSE 0, FALSE)),
                        !.fuel = 0]
         ELSE Tick([t EXCEPT !.dst = Append(@, SinkCall("write_all", blk, part, data,
                                      len, TRUE))])

\* dst.write_all(buf)?
WriteAll(t, blk, part, data, len) ==
    IF t.exc # "none" \/ len = 0 THEN t
    ELSE IF t.fuel = 1
         THEN Fail([t EXCEPT !.dst = Append(@, SinkCall("write_all", blk, part, data,
                                      IF t.partial THEN len - 1 ELSE 0, FALSE))])
         ELSE Tick([t EXCEPT !.dst = Append(@, SinkCall("write_all", blk, part, data,
                                      len, TRUE))])

\* as WriteAdvance, but counts the whole buffer whatever the sink took
WriteAdvance_CountsAll(t, blk, part, data, len) ==
    IF t.exc # "none" THEN t
    ELSE IF t.fuel = 1
         THEN Fail([t EXCEPT !.dst = Append(@, SinkCall("write", blk, part, data, 0, FALSE))])
         ELSE Tick([t EXCEPT !.dst = Append(@, SinkCall("write", blk, part, data,
                                                        Min(t.accept, len), TRUE)),
                            !.offset = @ + len])

\* self.offset += dst.write(buf)?
WriteAdvance(t, blk, part, data, len) ==
    IF t.exc # "none" THEN t
    ELSE IF t.fuel = 1
         THEN Fail([t EXCEPT !.dst = Append(@, SinkCall("write", blk, part, data, 0, FALSE))])
         ELSE Tick([t EXCEPT !.dst = Append(@, SinkCall("write", blk, part, data,
                                                        Min(t.accept, len), TRUE)),
                            !.offset = @ + Min(t.accept, len)])

\* dst.flush()?
Flush(t) ==
    IF t.exc # "none" THEN t
    ELSE IF t.fuel = 1
         THEN Fail([t EXCEPT !.dst = Append(@, SinkCall("flush", "", "", <<>>, 0, FALSE))])
         ELSE Tick([t EXCEPT !.dst = Append(@, SinkCall("flush", "", "", <<>>, 0, TRUE))])

\* encoder.compress_vec(&data)?
Compress(t, data, ctype) ==
    IF t.exc # "none" \/ ctype # CompressionSnappy THEN [t |-> t, data |-> data]
    ELSE IF t.fuel = 1 THEN [t |-> Fail(t), data |-> data]
    ELSE [t |-> Tick(t), data |-> compress_vec(data)]

BytesEmitted(dst) == SumLen(dst)

(***************************************************************************)
(* TableBuilder (table_builder.rs:83-272).  `blk` names the call site of   *)
(* write_block; life, ret, calls record the calls made on the builder.     *)
(***************************************************************************)
new(opt) ==
    [opt |-> opt,
     dst |-> <<>>,
     offset |-> 0,
     prev_block_last_key |-> <<>>,
     num_entries |-> 0,
     data_block |-> Some(NewBlock),
     filter_block |-> Some(NewFilterBlock(opt.filter_policy)),
     index_block |-> Some(NewBlock),
     life |-> "Open",
     ret |-> [res |-> "Ok", val |-> 0],
     calls |-> <<>>,
     fuel |-> 0, partial |-> FALSE, accept |-> FULL_FOOTER_LENGTH, exc |-> "none"]

\* as new_no_filter, but starts from default options instead of the caller's
new_no_filter_DefaultOptions(opt) ==
    new([opt EXCEPT !.filter_policy = "nofilter", !.compression_type = CompressionNone])

new_no_filter(opt) == new([opt EXCEPT !.filter_policy = "nofilter"])

\* as FrameDone, but the handle is built after the offset has advanced
FrameDone_HandleAfter(t, offset, len) ==
    IF t.exc # "none" THEN [t |-> t, handle |-> BlockHandle(offset, len)]
    ELSE [t |-> [t EXCEPT !.offset = @ + len + TABLE_BLOCK_COMPRESS_LEN
                                       + TABLE_BLOCK_CKSUM_LEN],
          handle |-> BlockHandle(offset + len + TABLE_BLOCK_COMPRESS_LEN
                                 + TABLE_BLOCK_CKSUM_LEN, len)]

\* as FrameDone, but the offset skips the checksum
FrameDone_NoCksum(t, offset, len) ==
    IF t.exc # "none" THEN [t |-> t, handle |-> BlockHandle(offset, len)]
    ELSE [t |-> [t EXCEPT !.offset = @ + len + TABLE_BLOCK_COMPRESS_LEN],
          handle |-> BlockHandle(offset, len)]

\* write_block, lines 219-222: the handle, and the offset past the frame
FrameDone(t, offset, len) ==
    IF t.exc # "none" THEN [t |-> t, handle |-> BlockHandle(offset, len)]
    ELSE [t |-> [t EXCEPT !.offset = @ + len + TABLE_BLOCK_COMPRESS_LEN
                                       + TABLE_BLOCK_CKSUM_LEN],
          handle |-> BlockHandle(offset, len)]

\* as WriteFrame, but the sink is flushed after every frame
WriteFrame_Flushes(c, blk, ctype) ==
    Flush(
        WriteAll(
            WriteAll(
                WriteAll(c.t, blk, "contents", c.data, ContentLen(c.data)),
                blk, "tag", Tag(ctype), TABLE_BLOCK_COMPRESS_LEN),
            blk, "cksum", mask_crc(Digest(<<c.data, Tag(ctype)>>)), TABLE_BLOCK_CKSUM_LEN))

\* as WriteFrame, but the digest is taken over the block before compression
WriteFrame_DigestOfInput(c, blk, ctype) ==
    WriteAll(
        WriteAll(
            WriteAll(c.t, blk, "contents", c.data, ContentLen(c.data)),
            blk, "tag", Tag(ctype), TABLE_BLOCK_COMPRESS_LEN),
        blk, "cksum", mask_crc(Digest(<<IF c.data.kind = "snappy" THEN c.data.of ELSE c.data,
                                       Tag(ctype)>>)),
        TABLE_BLOCK_CKSUM_LEN)

\* write_block, lines 210-217: the digest over data and tag, the three writes
WriteFrame(c, blk, ctype) ==
    WriteAll(
        WriteAll(
            WriteAll(c.t, blk, "contents", c.data, ContentLen(c.data)),
            blk, "tag", Tag(ctype), TABLE_BLOCK_COMPRESS_LEN),
        blk, "cksum", mask_crc(Digest(<<c.data, Tag(ctype)>>)), TABLE_BLOCK_CKSUM_LEN)

\* write_block, after the compression step
WriteCompressed(c, blk, ctype) ==
    FrameDone(WriteFrame(c, blk, ctype), c.t.offset, ContentLen(c.data))

\* write_block: compress, checksum, three writes, handle, offset
write_block(t, blk, block, ctype) ==
    WriteCompressed(Compress(t, block, ctype), blk, ctype)

\* write_data_block, lines 195-197: tell the filter where the next block starts
StartBlock(t) ==
    IF t.filter_block.some
    THEN [t EXCEPT !.filter_block = Some(FilterStartBlock(@.v, t.offset))]
    ELSE t

\* write_data_block, lines 184-199: after write_block, index the block
IndexDataBlock(w, sep) ==
    IF w.t.exc # "none" THEN w.t
    ELSE IF ~BlockCanAdd(w.t.index_block.v, sep) THEN Panic(w.t)
    ELSE StartBlock([w.t EXCEPT
                       !.index_block = Some(BlockAdd(@.v, sep, EncodeHandle(w.handle))),
                       !.data_block = Some(NewBlock)])

\* as write_data_block, but the data block is taken only once it is written
KeepOnError(t, r) ==
    IF r.exc = "err" THEN [r EXCEPT !.data_block = t.data_block] ELSE r

write_data_block_KeepsBlock(t, next_key) ==
    IF t.exc # "none" THEN t
    ELSE IF ~t.data_block.some THEN Panic(t)
    ELSE KeepOnError(t,
             IndexDataBlock(
                 write_block([t EXCEPT !.data_block = NoneOpt,
                                      !.prev_block_last_key = last_key(t.data_block.v)],
                            "data", BlockFinish(t.data_block.v), t.opt.compression_type),
                 find_shortest_sep(last_key(t.data_block.v), next_key)))

\* write_data_block: seal the current data block, index it, open a new one
write_data_block(t, next_key) ==
    IF t.exc # "none" THEN t
    ELSE IF ~t.data_block.some THEN Panic(t)
    ELSE IndexDataBlock(
             write_block([t EXCEPT !.data_block = NoneOpt,
                                  !.prev_block_last_key = last_key(t.data_block.v)],
                        "data", BlockFinish(t.data_block.v), t.opt.compression_type),
             find_shortest_sep(last_key(t.data_block.v), next_key))

\* the sink's behaviour during one call
Begin(t, io) ==
    [t EXCEPT !.fuel = io.fuel, !.partial = io.partial, !.accept = io.accept,
              !.exc = "none"]

Outcome(t) == IF t.exc = "panic" THEN "Panic" ELSE IF t.exc = "err" THEN "Err" ELSE "Ok"

\* as Return, but finish leaves the builder with the caller (&mut self)
Return_StaysOpen(t, op, key, val) ==
    [t EXCEPT !.ret = [res |-> Outcome(t), val |-> IF op = "finish" THEN t.offset ELSE 0],
              !.calls = Append(@, [op |-> op, key |-> key, val |-> val, res |-> Outcome(t)]),
              !.life = IF t.exc = "panic" THEN "Panicked" ELSE @,
              !.fuel = 0, !.partial = FALSE, !.accept = FULL_FOOTER_LENGTH,
              !.exc = "none"]

\* the call returns (or unwinds); finish has consumed the builder
Return(t, op, key, val) ==
    [t EXCEPT !.ret = [res |-> Outcome(t), val |-> IF op = "finish" THEN t.offset ELSE 0],
              !.calls = Append(@, [op |-> op, key |-> key, val |-> val, res |-> Outcome(t)]),
              !.life = IF op = "finish" THEN "Closed"
                       ELSE IF t.exc = "panic" THEN "Panicked" ELSE @,
              !.fuel = 0, !.partial = FALSE, !.accept = FULL_FOOTER_LENGTH,
              !.exc = "none"]

\* add, lines 163-165: register the key with the filter
RegisterKey(t, key) ==
    IF t.filter_block.some
    THEN [t EXCEPT !.filter_block = Some(FilterAddKey(@.v, key))]
    ELSE t

\* add, lines 167-169: count the entry, insert it into the data block
InsertEntry(t, key, val) ==
    IF ~BlockCanAdd(t.data_block.v, key) THEN Panic([t EXCEPT !.num_entries = @ + 1])
    ELSE [t EXCEPT !.num_entries = @ + 1,
                   !.data_block = Some(BlockAdd(@.v, key, val))]

\* add, lines 158-169: after the seal, if any
AddEntry(t, key, val) ==
    IF t.exc # "none" THEN t
    ELSE InsertEntry(RegisterKey(t, key), key, val)

\* as AddBody, but the key is registered with the filter before the seal
InsertAfterSeal(t, key, val) ==
    IF t.exc # "none" THEN t ELSE InsertEntry(t, key, val)

AddBody_RegistersFirst(t, key, val) ==
    IF ~t.data_block.some THEN Panic(t)
    ELSE IF t.prev_block_last_key # <<>> /\ Cmp(t.prev_block_last_key, key) # "Less"
         THEN Panic(t)
    ELSE InsertAfterSeal(IF size_estimate(t.data_block.v) > t.opt.block_size
                         THEN write_data_block(RegisterKey(t, key), key)
                         ELSE RegisterKey(t, key),
                         key, val)

\* TableBuilder::add, up to its return
AddBody(t, key, val) ==
    IF ~t.data_block.some THEN Panic(t)
    ELSE IF t.prev_block_last_key # <<>> /\ Cmp(t.prev_block_last_key, key) # "Less"
         THEN Panic(t)
    ELSE AddEntry(IF size_estimate(t.data_block.v) > t.opt.block_size
                  THEN write_data_block(t, key) ELSE t,
                  key, val)

add(t, key, val, io) == Return(AddBody(Begin(t, io), key, val), "add", key, val)

FilterKey(name) == <<"filter.", name>>

\* finish, lines 249-252: the metaindex entry of the filter block
FilterEntry(w, name) ==
    [t |-> w.t,
     meta |-> BlockAdd(NewBlock, FilterKey(name), EncodeHandle(w.handle))]

\* as FinishFilter, but the filter block is written with the table's compression
FinishFilter_Compressed(t) ==
    IF t.exc # "none" THEN [t |-> t, meta |-> NewBlock]
    ELSE IF t.filter_block.some
    THEN FilterEntry(write_block([t EXCEPT !.filter_block = NoneOpt], "filter",
                                FilterFinish(t.filter_block.v), t.opt.compression_type),
                     FilterName(t.filter_block.v))
    ELSE [t |-> t, meta |-> NewBlock]

\* finish, lines 239-253: the filter block and the metaindex block builder
FinishFilter(t) ==
    IF t.exc # "none" THEN [t |-> t, meta |-> NewBlock]
    ELSE IF t.filter_block.some
    THEN FilterEntry(write_block([t EXCEPT !.filter_block = NoneOpt], "filter",
                                FilterFinish(t.filter_block.v), CompressionNone),
                     FilterName(t.filter_block.v))
    ELSE [t |-> t, meta |-> NewBlock]

\* finish, lines 263-270: footer, flush
FinishFooter(meta_ix_handle, x) ==
    Flush(WriteAdvance(x.t, "footer", "footer",
                       EncodedFooter(Footer(meta_ix_handle, x.handle)),
                       FULL_FOOTER_LENGTH))

\* finish, line 260: self.index_block.take()
TakeIndex(t) == IF t.exc # "none" THEN t ELSE [t EXCEPT !.index_block = NoneOpt]

\* finish, lines 259-270: the index block, then the footer
FinishIndex(m) ==
    FinishFooter(m.handle,
                 write_block(TakeIndex(m.t), "index", BlockFinish(m.t.index_block.v),
                            m.t.opt.compression_type))

\* as FinishMeta, but the index block is written before the metaindex block
FooterAfterMeta(ix_handle, m) ==
    FinishFooter(m.handle, [t |-> m.t, handle |-> ix_handle])

MetaAfterIndex(x, meta) ==
    FooterAfterMeta(x.handle,
                    write_block(x.t, "metaindex", BlockFinish(meta),
                               x.t.opt.compression_type))

FinishMeta_IndexFirst(f) ==
    MetaAfterIndex(write_block(TakeIndex(f.t), "index", BlockFinish(f.t.index_block.v),
                              f.t.opt.compression_type),
                   f.meta)

\* finish, lines 255-270: the metaindex block, then the rest
FinishMeta(f) ==
    FinishIndex(write_block(f.t, "metaindex", BlockFinish(f.meta),
                           f.t.opt.compression_type))

\* as FinishBody, but the pending data block is not sealed
FinishBody_NoSeal(t) ==
    IF ~t.data_block.some THEN Panic(t)
    ELSE FinishMeta(FinishFilter(t))

\* TableBuilder::finish, up to its return
FinishBody(t) ==
    IF ~t.data_block.some THEN Panic(t)
    ELSE FinishMeta(FinishFilter(
             IF Entries(t.data_block.v) > 0
             THEN write_data_block(t, find_short_succ(last_key(t.data_block.v)))
             ELSE t))

finish(t, io) == Return(FinishBody(Begin(t, io)), "finish", <<>>, <<>>)

(***************************************************************************)
(* Specifications.                                                         *)
(***************************************************************************)
Opts ==
    [block_size : BlockSizes,
     compression_type : {CompressionNone, CompressionSnappy},
     filter_policy : {"bloom"}]

\* how the sink may behave during one call
IOs ==
    {[fuel |-> f, partial |-> p, accept |-> FULL_FOOTER_LENGTH] :
        f \in 0..MaxFuel, p \in BOOLEAN}
    \cup {[fuel |-> 0, partial |-> FALSE, accept |-> a] : a \in {0, ShortLen}}

NoCall == [op |-> "none", panic |-> FALSE, footer |-> NoFooter]

tb == tbs[1]

AddCount(t) == Cardinality({i \in 1..Len(t.calls) : t.calls[i].op = "add"})

Init ==
    /\ tbs \in {<<new(opt)>> : opt \in Opts} \cup {<<new_no_filter(opt)>> : opt \in Opts}
    /\ foot = NoFooter
    /\ buf = <<>>
    /\ dec = NoCall

\* b.add(key, val) on a builder the caller still owns
Add ==
    \E key \in Keys, val \in Values, io \in IOs :
        /\ \A i \in DOMAIN tbs : tbs[i].life = "Open" /\ AddCount(tbs[i]) < MaxAdds
        /\ tbs' = [i \in DOMAIN tbs |-> add(tbs[i], key, val, io)]
        /\ UNCHANGED <<foot, buf, dec>>

\* b.finish(), which takes the builder by value
Finish ==
    \E io \in IOs :
        /\ \A i \in DOMAIN tbs : tbs[i].life = "Open"
        /\ tbs' = [i \in DOMAIN tbs |-> finish(tbs[i], io)]
        /\ UNCHANGED <<foot, buf, dec>>

Next == Add \/ Finish

Spec == Init /\ [][Next]_vars

\* the same calls on a builder with a filter policy and on one without
TwinInit ==
    /\ tbs \in {<<new(opt), new_no_filter(opt)>> : opt \in Opts}
    /\ foot = NoFooter
    /\ buf = <<>>
    /\ dec = NoCall

TwinSpec == TwinInit /\ [][Next]_vars

\* Footer::encode and Footer::decode on buffers
Handles == {BlockHandle(o, s) : o \in HandleVals, s \in HandleVals}

FooterInit ==
    /\ tbs = <<>>
    /\ foot \in {Footer(m, x) : m \in Handles, x \in Handles}
    /\ buf \in {[i \in 1..n |-> b] :
                  n \in (FULL_FOOTER_LENGTH - 1)..(FULL_FOOTER_LENGTH + JunkLen),
                  b \in FillBytes}
    /\ dec = NoCall

Encode ==
    LET r == FooterEncode(foot, buf)
    IN  /\ buf' = r.to
        /\ dec' = [op |-> "encode", panic |-> r.panic, footer |-> foot]
        /\ UNCHANGED <<tbs, foot>>

Decode ==
    LET r == FooterDecode(buf)
    IN  /\ dec' = [op |-> "decode", panic |-> r.panic,
                   footer |-> r.footer]
        /\ UNCHANGED <<tbs, foot, buf>>

\* the caller places the footer bytes at the end of a longer buffer
Prepend ==
    \E b \in FillBytes :
        /\ Len(buf) < FULL_FOOTER_LENGTH + JunkLen
        /\ buf' = <<b>> \o buf
        /\ dec' = NoCall
        /\ UNCHANGED <<tbs, foot>>

\* the caller overwrites the first or the last byte of the magic field
Overwrite ==
    \E i \in {FOOTER_LENGTH + 1, FULL_FOOTER_LENGTH}, b \in FillBytes :
        /\ i <= Len(buf)
        /\ buf' = [buf EXCEPT ![i] = b]
        /\ dec' = NoCall
        /\ UNCHANGED <<tbs, foot>>

FooterNext == Encode \/ Decode \/ Prepend \/ Overwrite

FooterSpec == FooterInit /\ [][FooterNext]_vars

(***************************************************************************)
(* Reading the sink's record.                                              *)
(***************************************************************************)
\* bytes emitted before the i-th sink call
StartOf(dst, i) == BytesEmitted(SubSeq(dst, 1, i - 1))

\* positions of the contents writes of the frames written at call site blk
FramesOf(dst, blk) ==
    {i \in 1..Len(dst) : dst[i].blk = blk /\ dst[i].part = "contents"}

FooterWrites(dst) == {i \in 1..Len(dst) : dst[i].part = "footer"}

\* the handle a reader needs for the frame whose contents are the i-th call
FrameHandle(dst, i) == BlockHandle(StartOf(dst, i), dst[i].n)

\* the block inside written contents
Uncompressed(data) == IF data.kind = "snappy" THEN data.of ELSE data

AllOk(t) == \A i \in 1..Len(t.calls) : t.calls[i].res = "Ok"

Finished(t) == t.life = "Closed" /\ t.ret.res = "Ok"

AddCalls(t) == {i \in 1..Len(t.calls) : t.calls[i].op = "add"}

(***************************************************************************)
(* C1: an add whose key is not strictly greater than the key of the        *)
(* immediately preceding add fails, at every position of the sequence,     *)
(* also when the add first seals the current data block.                   *)
(***************************************************************************)
C1_OrderingEnforced ==
    \A i \in AddCalls(tb) :
        (i > 1 /\ tb.calls[i - 1].op = "add"
               /\ ~KeyLess(tb.calls[i - 1].key, tb.calls[i].key))
            => tb.calls[i].res # "Ok"

(***************************************************************************)
(* C2: the count a successful finish returns is the number of bytes the    *)
(* sink has taken over the builder's lifetime.                             *)
(***************************************************************************)
C2_ReturnedCountIsBytesEmitted ==
    Finished(tb) => tb.ret.val = BytesEmitted(tb.dst)

C2_Witness ==
    /\ Finished(tb)
    /\ Cardinality(FramesOf(tb.dst, "data")) >= 2
    /\ tb.opt.compression_type = CompressionSnappy
    /\ tb.ret.val = BytesEmitted(tb.dst)
    /\ tb.ret.val > FULL_FOOTER_LENGTH

(***************************************************************************)
(* C3: after a successful finish the last 48 bytes the sink has taken are  *)
(* the complete encoded footer of the metaindex and index handles of that  *)
(* run.                                                                    *)
(***************************************************************************)
C3_FooterIsLast48Bytes ==
    Finished(tb) =>
        \E i \in FooterWrites(tb.dst), m \in FramesOf(tb.dst, "metaindex"),
           x \in FramesOf(tb.dst, "index") :
            /\ \A j \in (i + 1)..Len(tb.dst) : tb.dst[j].n = 0
            /\ tb.dst[i].n = FULL_FOOTER_LENGTH
            /\ tb.dst[i].data =
                   EncodedFooter(Footer(FrameHandle(tb.dst, m), FrameHandle(tb.dst, x)))

(***************************************************************************)
(* C4: encoding a footer into a 48-byte buffer and decoding that buffer    *)
(* gives back both handles, offset and length.                             *)
(***************************************************************************)
C4_FooterRoundTrip ==
    (dec.op = "encode" /\ ~dec.panic /\ Len(buf) = FULL_FOOTER_LENGTH)
        => (~FooterDecode(buf).panic /\ FooterDecode(buf).footer = foot)

C4_Witness ==
    /\ dec.op = "encode" /\ ~dec.panic /\ Len(buf) = FULL_FOOTER_LENGTH
    /\ foot.meta_index = BlockHandle(268435456, 128)
    /\ foot.index = BlockHandle(127, 0)
    /\ ~FooterDecode(buf).panic
    /\ FooterDecode(buf).footer = foot

(***************************************************************************)
(* C5: Footer::decode accepts exactly the buffers of at least 48 bytes     *)
(* whose last 8 bytes are the magic.                                       *)
(***************************************************************************)
C5_DecodeAcceptsMagicTail ==
    dec.op = "decode" =>
        (~dec.panic <=> (/\ Len(buf) >= FULL_FOOTER_LENGTH
                         /\ SubSeq(buf, Len(buf) - 7, Len(buf)) = MAGIC_FOOTER_ENCODED))

Rank(call) ==
    CASE call.blk = "data" -> 1
      [] call.blk = "filter" -> 2
      [] call.blk = "metaindex" -> 3
      [] call.blk = "index" -> 4
      [] call.blk = "footer" -> 5
      [] OTHER -> 6

(***************************************************************************)
(* C6: in a run that ends with a successful finish the sink is written in  *)
(* the order data blocks, filter block, metaindex block, index block,      *)
(* footer: one metaindex frame, one index frame, one footer, at most one   *)
(* filter frame (one when a filter policy is set), and no data block frame *)
(* after any of them.                                                      *)
(***************************************************************************)
C6_WriteOrder ==
    Finished(tb) =>
        /\ \A i \in 1..(Len(tb.dst) - 1) : Rank(tb.dst[i]) <= Rank(tb.dst[i + 1])
        /\ Cardinality(FramesOf(tb.dst, "metaindex")) = 1
        /\ Cardinality(FramesOf(tb.dst, "index")) = 1
        /\ Cardinality(FooterWrites(tb.dst)) = 1
        /\ Cardinality(FramesOf(tb.dst, "filter")) <= 1
        /\ tb.opt.filter_policy = "bloom" => FramesOf(tb.dst, "filter") # {}

C6_Witness ==
    /\ Finished(tb)
    /\ tb.opt.filter_policy = "bloom"
    /\ Cardinality(FramesOf(tb.dst, "data")) >= 2
    /\ FramesOf(tb.dst, "filter") # {}
    /\ \A i \in 1..(Len(tb.dst) - 1) : Rank(tb.dst[i]) <= Rank(tb.dst[i + 1])

(***************************************************************************)
(* C7: a builder made by new_no_filter writes no filter block frame, and   *)
(* its metaindex block has no entries.                                     *)
(***************************************************************************)
C7_NoFilterNoFilterBlock ==
    (Finished(tb) /\ tb.opt.filter_policy = "nofilter") =>
        /\ FramesOf(tb.dst, "filter") = {}
        /\ \A m \in FramesOf(tb.dst, "metaindex") :
               Uncompressed(tb.dst[m].data).entries = <<>>

IsData(call) == call.blk = "data"
IsIndex(call) == call.blk = "index"
OutsideFilterMeta(call) == call.blk \notin {"filter", "metaindex"}
OutsideFilterMetaFooter(call) == call.blk \notin {"filter", "metaindex", "footer"}

BothFinished == DOMAIN tbs = {1, 2} /\ Finished(tbs[1]) /\ Finished(tbs[2])

(***************************************************************************)
(* C8: the same adds with the same block size and compression, once with   *)
(* a filter policy and once with the no-op policy.                         *)
(***************************************************************************)
\* C8 as claimed: same data block frames at the same offsets, same index
\* block contents, and nothing but the filter and metaindex blocks differs
C8_OnlyFilterAndMetaindexDiffer ==
    BothFinished =>
        /\ SelectSeq(tbs[1].dst, IsData) = SelectSeq(tbs[2].dst, IsData)
        /\ FramesOf(tbs[1].dst, "data") = FramesOf(tbs[2].dst, "data")
        /\ \A i \in FramesOf(tbs[1].dst, "data") :
               StartOf(tbs[1].dst, i) = StartOf(tbs[2].dst, i)
        /\ SelectSeq(tbs[1].dst, IsIndex) = SelectSeq(tbs[2].dst, IsIndex)
        /\ SelectSeq(tbs[1].dst, OutsideFilterMeta)
             = SelectSeq(tbs[2].dst, OutsideFilterMeta)

\* C8 as amended: same data block frames at the same offsets and same index
\* block contents; what differs lies in the filter block, the metaindex
\* block or the footer
C8_DataAndIndexAgree ==
    BothFinished =>
        /\ SelectSeq(tbs[1].dst, IsData) = SelectSeq(tbs[2].dst, IsData)
        /\ FramesOf(tbs[1].dst, "data") = FramesOf(tbs[2].dst, "data")
        /\ \A i \in FramesOf(tbs[1].dst, "data") :
               StartOf(tbs[1].dst, i) = StartOf(tbs[2].dst, i)
        /\ SelectSeq(tbs[1].dst, IsIndex) = SelectSeq(tbs[2].dst, IsIndex)
        /\ SelectSeq(tbs[1].dst, OutsideFilterMetaFooter)
             = SelectSeq(tbs[2].dst, OutsideFilterMetaFooter)

C8_Witness ==
    /\ BothFinished
    /\ tbs[1].opt.filter_policy = "bloom" /\ tbs[2].opt.filter_policy = "nofilter"
    /\ tbs[1].opt.compression_type = CompressionSnappy
    /\ Cardinality(FramesOf(tbs[1].dst, "data")) >= 2
    /\ SelectSeq(tbs[1].dst, IsData) = SelectSeq(tbs[2].dst, IsData)
    /\ tbs[1].dst # tbs[2].dst

WrittenIndex(dst) ==
    Uncompressed(dst[CHOOSE i \in FramesOf(dst, "index") : TRUE].data).entries

IndexEntries(t) == IF t.index_block.some THEN t.index_block.v ELSE WrittenIndex(t.dst)

\* the position of frame i among the data block frames
Nth(dst, i) == Cardinality({j \in FramesOf(dst, "data") : j <= i})

IndexMatches(ix, dst) ==
    /\ Len(ix) = Cardinality(FramesOf(dst, "data"))
    /\ \A i \in FramesOf(dst, "data") :
           ix[Nth(dst, i)].val = EncodeHandle(FrameHandle(dst, i))

(***************************************************************************)
(* C9: between operations of an error-free run the index block has one     *)
(* entry per data block frame written, the i-th holding the encoded handle *)
(* of the i-th data block; a finish without adds writes an empty index     *)
(* block and no data block.                                                *)
(***************************************************************************)
C9_IndexEntryPerDataBlock ==
    AllOk(tb) => IndexMatches(IndexEntries(tb), tb.dst)

C9_Witness ==
    /\ AllOk(tb) /\ Finished(tb)
    /\ Cardinality(FramesOf(tb.dst, "data")) = 3
    /\ Len(WrittenIndex(tb.dst)) = 3
    /\ IndexMatches(WrittenIndex(tb.dst), tb.dst)

FinishCalls(t) == {i \in 1..Len(t.calls) : t.calls[i].op = "finish"}

(***************************************************************************)
(* C10: the builder goes Open -> Closed: a call is only made on an Open    *)
(* builder, finish is executed at most once, and once finish has been      *)
(* invoked the builder and its sink do not change again.                   *)
(***************************************************************************)
C10_Lifecycle ==
    [][/\ tb.life # "Open" => tb' = tb
       /\ tb'.calls # tb.calls => tb.life = "Open"
       /\ Cardinality(FinishCalls(tb')) <= 1
       /\ FinishCalls(tb') # {} => tb'.life = "Closed"]_vars

C10_Witness ==
    /\ tb.life = "Closed"
    /\ Cardinality(FinishCalls(tb)) = 1
    /\ AddCount(tb) >= 1

Flushes(dst) == {i \in 1..Len(dst) : dst[i].call = "flush"}

(***************************************************************************)
(* C11: the sink is flushed at most once in any run; no add flushes, so a  *)
(* builder that was not finished has never flushed; a flush is the last    *)
(* call the sink ever sees and it follows the footer write; a successful   *)
(* finish has flushed exactly once.                                        *)
(***************************************************************************)
C11_FlushOnceAtTheEnd ==
    /\ Cardinality(Flushes(tb.dst)) <= 1
    /\ (\A i \in 1..Len(tb.calls) : tb.calls[i].op = "add") => Flushes(tb.dst) = {}
    /\ \A i \in Flushes(tb.dst) :
           /\ i = Len(tb.dst)
           /\ i > 1 /\ tb.dst[i - 1].part = "footer" /\ tb.dst[i - 1].ok
    /\ Finished(tb) => Cardinality(Flushes(tb.dst)) = 1

C11_Witness ==
    /\ Finished(tb)
    /\ Cardinality(FramesOf(tb.dst, "data")) >= 2
    /\ AddCount(tb) >= 2
    /\ Flushes(tb.dst) = {Len(tb.dst)}
    /\ FooterWrites(tb.dst) = {Len(tb.dst) - 1}

\* the calls after which the caller saw an error
ErrCalls(t) == {i \in 1..Len(t.calls) : t.calls[i].res = "Err"}

\* the sink's record ends where a frame ends (or nothing was written)
AtFrameEnd(dst) == dst = <<>> \/ dst[Len(dst)].part = "cksum"

(***************************************************************************)
(* C12: a failed sink call is the last call the sink ever sees, and the    *)
(* operation that made it returned the error; an operation that returned   *)
(* an error without a failed sink call failed in the compression step and  *)
(* wrote nothing of the frame it was compressing; a finish that returned a *)
(* byte count had no failed step.                                          *)
(***************************************************************************)
C12_ErrorsReturnAtOnce ==
    /\ \A i \in 1..Len(tb.dst) :
           ~tb.dst[i].ok =>
               /\ i = Len(tb.dst)
               /\ \E k \in ErrCalls(tb) :
                      \A j \in (k + 1)..Len(tb.calls) : tb.calls[j].res = "Panic"
    /\ tb.ret.res = "Err" =>
           \/ tb.dst # <<>> /\ ~tb.dst[Len(tb.dst)].ok
           \/ /\ tb.opt.compression_type = CompressionSnappy
              /\ AtFrameEnd(tb.dst)
    /\ Finished(tb) =>
           /\ ErrCalls(tb) = {}
           /\ \A i \in 1..Len(tb.dst) : tb.dst[i].ok

C12_Witness ==
    /\ tb.life = "Closed" /\ tb.ret.res = "Err"
    /\ Cardinality(FramesOf(tb.dst, "data")) >= 2
    /\ tb.dst[Len(tb.dst)].blk = "index"
    /\ tb.dst[Len(tb.dst)].part = "tag"
    /\ ~tb.dst[Len(tb.dst)].ok
    /\ FooterWrites(tb.dst) = {}

\* positions of the tag writes: one per frame, also when the contents are empty
Tags(dst) == {j \in 1..Len(dst) : dst[j].part = "tag"}

TagsOf(dst, blk) == {j \in Tags(dst) : dst[j].blk = blk}

\* the contents bytes the sink took for the frame whose tag is the j-th call
ContentsTaken(dst, j) ==
    IF j > 1 /\ dst[j - 1].part = "contents" /\ dst[j - 1].blk = dst[j].blk
    THEN dst[j - 1].n ELSE 0

\* where the frame lies in the output, read from the sink's record alone
FrameAt(dst, j) ==
    BlockHandle(StartOf(dst, j) - ContentsTaken(dst, j), ContentsTaken(dst, j))

FrameEnd(h) == h.offset + h.size + TABLE_BLOCK_COMPRESS_LEN + TABLE_BLOCK_CKSUM_LEN

\* the frames follow one another from offset 0 without a gap
Contiguous(dst) ==
    \A j \in Tags(dst) :
        FrameAt(dst, j).offset =
            IF \E i \in Tags(dst) : i < j
            THEN FrameEnd(FrameAt(dst, CHOOSE i \in Tags(dst) :
                                          i < j /\ \A k \in Tags(dst) : k < j => k <= i))
            ELSE 0

\* the handles the builder recorded: index entries, metaindex entry, footer
DataHandlesMatch(t) ==
    /\ Len(IndexEntries(t)) = Cardinality(TagsOf(t.dst, "data"))
    /\ \A j \in TagsOf(t.dst, "data") :
           IndexEntries(t)[Cardinality({i \in TagsOf(t.dst, "data") : i <= j})].val
               = EncodeHandle(FrameAt(t.dst, j))

FilterHandleMatches(dst) ==
    \A j \in TagsOf(dst, "filter"), m \in FramesOf(dst, "metaindex") :
        /\ Len(Uncompressed(dst[m].data).entries) = 1
        /\ Uncompressed(dst[m].data).entries[1].val = EncodeHandle(FrameAt(dst, j))

FooterHandlesMatch(dst) ==
    \A f \in FooterWrites(dst) :
        \E m \in TagsOf(dst, "metaindex"), x \in TagsOf(dst, "index") :
            dst[f].data = EncodedFooter(Footer(FrameAt(dst, m), FrameAt(dst, x)))

(***************************************************************************)
(* C13: between operations of an error-free run the running offset is the  *)
(* number of bytes the sink has taken; the frames lie one after another    *)
(* from offset 0, each ending length + 5 after its start; and every handle *)
(* the builder recorded (index entries, metaindex entry, footer) holds the *)
(* offset of its frame and the number of contents bytes written.           *)
(***************************************************************************)
C13_HandlesAndOffset ==
    AllOk(tb) =>
        /\ tb.offset = BytesEmitted(tb.dst)
        /\ Contiguous(tb.dst)
        /\ DataHandlesMatch(tb)
        /\ FilterHandleMatches(tb.dst)
        /\ FooterHandlesMatch(tb.dst)

C13_Witness ==
    /\ Finished(tb)
    /\ tb.opt.compression_type = CompressionSnappy
    /\ Cardinality(TagsOf(tb.dst, "data")) >= 2
    /\ \E j \in TagsOf(tb.dst, "filter") : FrameAt(tb.dst, j).size > 0
    /\ \E x \in TagsOf(tb.dst, "index") :
           /\ FrameAt(tb.dst, x).offset > 0
           /\ tb.offset = FrameEnd(FrameAt(tb.dst, x)) + FULL_FOOTER_LENGTH

RECURSIVE StoredEntries(_, _)
\* the entries of the data blocks among the first n sink calls, in file order
StoredEntries(dst, n) ==
    IF n = 0 THEN <<>>
    ELSE StoredEntries(dst, n - 1)
         \o (IF dst[n].blk = "data" /\ dst[n].part = "contents"
             THEN Uncompressed(dst[n].data).entries ELSE <<>>)

RECURSIVE AddedEntries(_, _)
\* the pairs passed to add among the first n calls, in call order
AddedEntries(calls, n) ==
    IF n = 0 THEN <<>>
    ELSE AddedEntries(calls, n - 1)
         \o (IF calls[n].op = "add" THEN <<Entry(calls[n].key, calls[n].val)>> ELSE <<>>)

(***************************************************************************)
(* C14: after a successful finish the entries of the written data blocks,  *)
(* concatenated in file order, are the pairs passed to add in call order:  *)
(* none lost, none duplicated, none reordered.                             *)
(***************************************************************************)
C14_EntriesPreserved ==
    Finished(tb) =>
        StoredEntries(tb.dst, Len(tb.dst)) = AddedEntries(tb.calls, Len(tb.calls))

C14_Witness ==
    /\ Finished(tb)
    /\ AddCount(tb) = MaxAdds
    /\ Cardinality(FramesOf(tb.dst, "data")) = 2
    /\ tb.opt.compression_type = CompressionSnappy
    /\ Len(StoredEntries(tb.dst, Len(tb.dst))) = MaxAdds

RECURSIVE DataBlocks(_, _)
\* the entry lists of the data blocks among the first n sink calls, in file order
DataBlocks(dst, n) ==
    IF n = 0 THEN <<>>
    ELSE DataBlocks(dst, n - 1)
         \o (IF dst[n].blk = "data" /\ dst[n].part = "contents"
             THEN <<Uncompressed(dst[n].data).entries>> ELSE <<>>)

\* the written data blocks, then the open one if it holds entries
BlocksOf(t) ==
    DataBlocks(t.dst, Len(t.dst))
    \o (IF t.data_block.some /\ Entries(t.data_block.v) > 0
        THEN <<t.data_block.v>> ELSE <<>>)

first_key(block) == block[1].key

\* the adds were made in strictly increasing key order
Increasing(t) ==
    \A i \in AddCalls(t), j \in AddCalls(t) :
        i < j => KeyLess(t.calls[i].key, t.calls[j].key)

SeparatorBounds(ix, blocks) ==
    \A n \in 1..Len(ix) :
        /\ n <= Len(blocks)
        /\ KeyLeq(last_key(blocks[n]), ix[n].key)
        /\ n < Len(blocks) => KeyLess(ix[n].key, first_key(blocks[n + 1]))
        /\ n = Len(blocks) => KeyLess(ix[n].key, find_short_succ(last_key(blocks[n])))
        /\ n > 1 => KeyLess(ix[n - 1].key, ix[n].key)

(***************************************************************************)
(* C15: for strictly increasing input, between operations of an error-free *)
(* run the separator of the i-th index entry is at least the last key of   *)
(* data block i and below the first key of data block i+1 when there is    *)
(* one (below the successor of its last key for the last block), and the   *)
(* index keys are strictly increasing.                                     *)
(***************************************************************************)
C15_SeparatorsBound ==
    (AllOk(tb) /\ Increasing(tb)) => SeparatorBounds(IndexEntries(tb), BlocksOf(tb))

\* the calls the filter block builder has received: in the builder, or in the
\* filter block it became
FilterKept(t) == t.filter_block.some \/ FramesOf(t.dst, "filter") # {}

FilterCalls(t) ==
    IF t.filter_block.some THEN t.filter_block.v.calls
    ELSE t.dst[CHOOSE i \in FramesOf(t.dst, "filter") : TRUE].data.calls

KeyCalls(block) == [i \in 1..Len(block) |-> [call |-> "add_key", arg |-> block[i].key]]

RECURSIVE GroupCalls(_, _)
\* per data block among the first n sink calls: its keys, then the start_block
\* of its sealing with the offset just past its frame
GroupCalls(dst, n) ==
    IF n = 0 THEN <<>>
    ELSE GroupCalls(dst, n - 1)
         \o (IF dst[n].blk = "data" /\ dst[n].part = "contents"
             THEN KeyCalls(Uncompressed(dst[n].data).entries)
                  \o <<[call |-> "start_block", arg |-> FrameEnd(FrameHandle(dst, n))]>>
             ELSE <<>>)

OpenCalls(t) == IF t.data_block.some THEN KeyCalls(t.data_block.v) ELSE <<>>

StartCalls(calls) == {i \in 1..Len(calls) : calls[i].call = "start_block"}

(***************************************************************************)
(* C16: between operations of an error-free run the filter has received,   *)
(* for each data block in file order, one add_key per key of the block     *)
(* followed by one start_block carrying the offset just past the block's   *)
(* frame, and then the keys of the open data block; in no run has it       *)
(* received more start_block calls than data block frames were written.    *)
(***************************************************************************)
C16_FilterCoordination ==
    FilterKept(tb) =>
        /\ AllOk(tb) => FilterCalls(tb) = GroupCalls(tb.dst, Len(tb.dst)) \o OpenCalls(tb)
        /\ Cardinality(StartCalls(FilterCalls(tb)))
               <= Cardinality({i \in TagsOf(tb.dst, "data") : tb.dst[i].ok})

C16_Witness ==
    /\ Finished(tb)
    /\ FramesOf(tb.dst, "filter") # {}
    /\ Cardinality(FramesOf(tb.dst, "data")) = 2
    /\ AddCount(tb) = MaxAdds
    /\ Cardinality(StartCalls(FilterCalls(tb))) = 2
    /\ FilterCalls(tb)[1].call = "add_key"
    /\ FilterCalls(tb)[Len(FilterCalls(tb))].call = "start_block"
    /\ FilterCalls(tb)[Len(FilterCalls(tb))].arg > 0

\* the compression write_block is called with at call site blk
CtypeAt(t, blk) == IF blk = "filter" THEN CompressionNone ELSE t.opt.compression_type

Contents(dst) == {i \in 1..Len(dst) : dst[i].part = "contents"}

(***************************************************************************)
(* C17: every tag byte handed to the sink is "none" for the filter block   *)
(* and the configured compression's tag for data, metaindex and index      *)
(* blocks; the filter block's contents are handed over as the filter       *)
(* builder produced them, the contents of the other blocks compressed      *)
(* exactly when the configured compression is snappy.                      *)
(***************************************************************************)
C17_CompressionPerBlockKind ==
    /\ \A j \in Tags(tb.dst) : tb.dst[j].data = Tag(CtypeAt(tb, tb.dst[j].blk))
    /\ \A i \in Contents(tb.dst) :
           /\ (tb.dst[i].data.kind = "snappy")
                  <=> (CtypeAt(tb, tb.dst[i].blk) = CompressionSnappy)
           /\ Uncompressed(tb.dst[i].data).kind
                  = (IF tb.dst[i].blk = "filter" THEN "filter" ELSE "block")

C17_Witness ==
    /\ Finished(tb)
    /\ tb.opt.compression_type = CompressionSnappy
    /\ \E i \in FramesOf(tb.dst, "filter") :
           /\ tb.dst[i].data.kind = "filter"
           /\ tb.dst[i + 1].data = Tag(CompressionNone)
    /\ \E i \in FramesOf(tb.dst, "data") :
           /\ tb.dst[i].data.kind = "snappy"
           /\ tb.dst[i + 1].data = Tag(CompressionSnappy)
    /\ \E i \in FramesOf(tb.dst, "index") : tb.dst[i].data.kind = "snappy"

\* the j-th sink call is a tag write that directly follows its frame's contents
AfterContents(dst, j) ==
    j > 1 /\ dst[j - 1].part = "contents" /\ dst[j - 1].blk = dst[j].blk /\ dst[j - 1].ok

\* what the checksum written by the j-th sink call was computed over
DigestInput(dst, j) == dst[j].data.masked.crc32c

(***************************************************************************)
(* C18: the sink receives every frame as its contents, then one tag byte,  *)
(* then four checksum bytes, and the checksum is the masked digest of      *)
(* exactly the contents written (the compressed bytes when compression is  *)
(* on; nothing when the contents are empty) followed by the tag written.   *)
(***************************************************************************)
C18_FrameLayout ==
    /\ \A i \in Contents(tb.dst) :
           (tb.dst[i].ok /\ i < Len(tb.dst)) =>
               tb.dst[i + 1].part = "tag" /\ tb.dst[i + 1].blk = tb.dst[i].blk
    /\ \A j \in Tags(tb.dst) :
           /\ tb.dst[j].ok => tb.dst[j].n = TABLE_BLOCK_COMPRESS_LEN
           /\ (tb.dst[j].ok /\ j < Len(tb.dst)) =>
                  tb.dst[j + 1].part = "cksum" /\ tb.dst[j + 1].blk = tb.dst[j].blk
    /\ \A k \in 1..Len(tb.dst) :
           tb.dst[k].part = "cksum" =>
               /\ tb.dst[k].ok => tb.dst[k].n = TABLE_BLOCK_CKSUM_LEN
               /\ k > 1 /\ tb.dst[k - 1].part = "tag" /\ tb.dst[k - 1].blk = tb.dst[k].blk
               /\ Len(DigestInput(tb.dst, k)) = 2
               /\ DigestInput(tb.dst, k)[2] = tb.dst[k - 1].data
               /\ IF AfterContents(tb.dst, k - 1)
                  THEN /\ DigestInput(tb.dst, k)[1] = tb.dst[k - 2].data
                       /\ tb.dst[k - 2].n = ContentLen(tb.dst[k - 2].data)
                  ELSE ContentLen(DigestInput(tb.dst, k)[1]) = 0

C18_Witness ==
    /\ Finished(tb)
    /\ tb.opt.compression_type = CompressionSnappy
    /\ \E i \in FramesOf(tb.dst, "data") :
           /\ Entries(tb.dst[i].data.of.entries) = 2
           /\ tb.dst[i + 2].data = mask_crc(Digest(<<tb.dst[i].data, Tag(CompressionSnappy)>>))
           /\ tb.dst[i].n + tb.dst[i + 1].n + tb.dst[i + 2].n
                  = SnappyLen(size_estimate(tb.dst[i].data.of.entries)) + 5

\* an add has returned an error: its seal failed
AddFailed(t) == \E i \in AddCalls(t) : t.calls[i].res = "Err"

(***************************************************************************)
(* C19: once an add has returned an error, every later add or finish fails *)
(* and hands nothing to the sink, and the sink never receives a footer.    *)
(***************************************************************************)
C19_FailedTableStaysFailed ==
    [][AddFailed(tb) =>
          /\ tb'.ret.res # "Ok"
          /\ tb'.dst = tb.dst
          /\ FooterWrites(tb'.dst) = {}
          /\ ~tb'.data_block.some]_vars

C19_Witness ==
    /\ AddFailed(tb)
    /\ tb.life = "Closed" /\ tb.ret.res = "Panic"
    /\ tb.calls[Len(tb.calls)].op = "finish"
    /\ Cardinality(FramesOf(tb.dst, "data")) >= 2
    /\ ~tb.dst[Len(tb.dst)].ok
    /\ tb.dst[Len(tb.dst)].n > 0

\* the 48 bytes of a footer, written out field by field
FooterLayout(f) ==
    EncodeHandle(f.meta_index) \o EncodeHandle(f.index)
    \o [i \in 1..(FOOTER_LENGTH - Len(EncodeHandle(f.meta_index))
                                  - Len(EncodeHandle(f.index))) |-> 0]
    \o MAGIC_FOOTER_ENCODED

(***************************************************************************)
(* C20: Footer::encode succeeds exactly on buffers of at least 48 bytes;   *)
(* afterwards the first 48 bytes are the metaindex handle, the index       *)
(* handle, zeros up to byte 40 and the magic, whatever the buffer held     *)
(* before, and the buffer's length and its bytes from position 48 on are   *)
(* as they were.                                                           *)
(***************************************************************************)
C20_EncodeFrame ==
    [][dec'.op = "encode" =>
          /\ dec'.panic <=> Len(buf) < FULL_FOOTER_LENGTH
          /\ Len(buf') = Len(buf)
          /\ \A i \in (FULL_FOOTER_LENGTH + 1)..Len(buf) : buf'[i] = buf[i]
          /\ ~dec'.panic => SubSeq(buf', 1, FULL_FOOTER_LENGTH) = FooterLayout(foot)
          /\ dec'.panic => buf' = buf]_vars

C20_Witness ==
    /\ dec.op = "encode" /\ ~dec.panic
    /\ Len(buf) = FULL_FOOTER_LENGTH + 1
    /\ buf[FULL_FOOTER_LENGTH + 1] = 7
    /\ foot.meta_index = BlockHandle(268435456, 128)
    /\ foot.index = BlockHandle(127, 0)
    /\ buf[8] = 127 /\ buf[9] = 0 /\ buf[10] = 0 /\ buf[FOOTER_LENGTH] = 0
    /\ buf[FOOTER_LENGTH + 1] = 87 /\ buf[FULL_FOOTER_LENGTH] = 219

====
